---- MODULE Spec2Model ----
(***************************************************************************)
(* Model of the Japanese Anki card generator backend:                      *)
(*   services/japanese_text.py        script classification, furigana      *)
(*   services/vocabulary_processor.py  per-word normalisation and audio    *)
(*   services/anki_builder.py         note building and package assembly   *)
(*   Main.py, api.py                  the two entry paths                  *)
(*                                                                         *)
(* Text is a sequence of Unicode code points (integers), so the range      *)
(* tests of the source are written exactly as the source writes them.      *)
(***************************************************************************)
EXTENDS Integers, Sequences, FiniteSets, TLC

VARIABLES
    pc,         \* position of the running operation
    text,       \* argument of the classifier call
    verdict,    \* result of is_pure_katakana(text)
    kanji_word, \* argument of build_furigana
    cuts,       \* tokenizer's choice: positions where a new token starts
    reading_arg,\* reading_hiragana argument of build_furigana
    furigana,   \* result of build_furigana
    vocab,      \* the word list being processed
    idx,        \* 1-based position of the current word / item
    cur,        \* process_word's locals for the current word
    norm_kept,  \* whether process_word kept the reading verbatim
    results,    \* process_vocabulary's result list
    disk,       \* audio files written: {[path, text]}
    synth_log,  \* the synthesis calls made, in order
    audio_dir,  \* the Audio directory of the run
    results_dir,\* the results directory of the run
    deck,       \* the notes added to the deck, in order
    notes_added,\* create_anki_package's counter
    media_files,\* create_anki_package's list of collected paths
    image_files,\* image files written: {[path, data]}
    image_log,  \* the image writes made, in order
    package,    \* the package file written, if any
    request,    \* the input batch as it arrives at an entry path
    dirs,       \* the results directories created
    clock,      \* the second the wall clock shows
    apkg_files, \* the package files on disk, one per results directory
    apkg_path,  \* the path the latest successful generate request returned
    served      \* the answer to the latest download request

textVars == <<text, verdict>>
furiVars == <<kanji_word, cuts, reading_arg, furigana>>
wordData == <<vocab, cur, norm_kept, results, disk, synth_log, audio_dir>>
wordVars == <<idx, wordData>>
pkgVars == <<results_dir, deck, notes_added, media_files, image_files,
             image_log, package>>
serveVars == <<clock, apkg_files, apkg_path, served>>
entryVars == <<request, dirs, serveVars>>
vars == <<pc, textVars, furiVars, wordVars, pkgVars, entryVars>>

TextIdle == text = <<>> /\ verdict = FALSE
FuriIdle == kanji_word = <<>> /\ cuts = {} /\ reading_arg = <<>> /\ furigana = <<>>

----------------------------------------------------------------------------
\* Bounds of the model.
MaxTextLen == 3
MaxWordLen == 2
MaxReadLen == 4
MaxReadingLen == 2
MaxAudioCount == 2
MaxBatch == 2
MaxClock == 2

----------------------------------------------------------------------------
\* Code points used as sample characters.
\*   32 ' '   91 '['   93 ']'   97 'a'
\*   12371 hiragana KO   12397 hiragana NE
\*   12493 katakana NE   12539 middle dot   12540 prolonged-sound mark
\*   29483 kanji "cat" (read NE KO)
Ch == [sp |-> 32, lb |-> 91, rb |-> 93, lat |-> 97,
       hiKo |-> 12371, hiNe |-> 12397,
       kaNe |-> 12493, dot |-> 12539, long |-> 12540,
       kj |-> 29483]

\* All texts over alphabet A of length at most n.
Strs(A, n) == UNION {[1..k -> A] : k \in 0..n}

RECURSIVE Flatten(_)
Flatten(ss) == IF ss = <<>> THEN <<>> ELSE Head(ss) \o Flatten(Tail(ss))

\* Python's seq[a:b] for 0 <= a <= b (0-based, end exclusive, clamped).
Slice(s, a, b) ==
    LET lo == IF a > Len(s) THEN Len(s) ELSE a
        hi == IF b > Len(s) THEN Len(s) ELSE b
    IN  IF hi <= lo THEN <<>> ELSE SubSeq(s, lo + 1, hi)

\* str.isspace() for one character.
IsSpace(c) ==
    \/ c \in 9..13 \/ c \in 28..32 \/ c = 133 \/ c = 160 \/ c = 5760
    \/ c \in 8192..8202 \/ c \in {8232, 8233, 8239, 8287, 12288}

\* bool(s.strip()): some character is not whitespace.
StripTruthy(s) == \E i \in 1..Len(s) : ~IsSpace(s[i])

----------------------------------------------------------------------------
\* services/japanese_text.py

\* is_katakana: any character in U+30A0..U+30FF.
is_katakana(t) == \E i \in 1..Len(t) : 12448 <= t[i] /\ t[i] <= 12543

\* is_kanji: any character in one of the CJK ideograph ranges.
is_kanji(t) ==
    \E i \in 1..Len(t) :
        \/ (19968 <= t[i] /\ t[i] <= 40959)
        \/ (13312 <= t[i] /\ t[i] <= 19903)
        \/ (131072 <= t[i] /\ t[i] <= 173791)
        \/ (173824 <= t[i] /\ t[i] <= 177983)
        \/ (177984 <= t[i] /\ t[i] <= 178207)
        \/ (63744 <= t[i] /\ t[i] <= 64255)

\* is_pure_katakana, branch by branch.
is_pure_katakana(t) ==
    IF t = <<>> THEN FALSE
    ELSE IF is_kanji(t) THEN FALSE
    ELSE IF \E i \in 1..Len(t) : 12352 <= t[i] /\ t[i] <= 12447 THEN FALSE
    ELSE IF \E i \in 1..Len(t) :
                ~( (12448 <= t[i] /\ t[i] <= 12543)
                   \/ IsSpace(t[i])
                   \/ t[i] \in {Ch.dot, Ch.long} ) THEN FALSE
    ELSE \E i \in 1..Len(t) : 12448 <= t[i] /\ t[i] <= 12543

\* The transliteration engine on one character: a kanji becomes its kana
\* reading, a katakana letter the hiragana letter 96 code points below it,
\* everything else (marks, hiragana, latin, blanks) is kept.
HiraOfChar(c) ==
    IF c = Ch.kj THEN <<Ch.hiNe, Ch.hiKo>>
    ELSE IF 12449 <= c /\ c <= 12534 THEN <<c - 96>>
    ELSE <<c>>

\* convert_to_hiragana: the engine's result, joined.
convert_to_hiragana(t) == Flatten([i \in 1..Len(t) |-> HiraOfChar(t[i])])

\* The tagger: blanks separate tokens and are dropped; inside a run of
\* non-blank characters a new token starts at every position in cs.
RECURSIVE TaggerFrom(_, _, _, _)
TaggerFrom(w, cs, i, acc) ==
    LET flush == IF acc = <<>> THEN <<>> ELSE <<acc>> IN
    IF i > Len(w) THEN flush
    ELSE IF IsSpace(w[i]) THEN flush \o TaggerFrom(w, cs, i + 1, <<>>)
    ELSE IF i \in cs /\ acc # <<>> THEN <<acc>> \o TaggerFrom(w, cs, i + 1, <<w[i]>>)
    ELSE TaggerFrom(w, cs, i + 1, Append(acc, w[i]))

tagger(w, cs) == TaggerFrom(w, cs, 1, <<>>)

\* A slip in the annotation markup: the closing bracket is left out.
FuriganaPieceUnclosed(surface, reading_hiragana, reading_index) ==
    LET kana    == convert_to_hiragana(surface)
        segment == Slice(reading_hiragana, reading_index,
                         reading_index + Len(kana))
    IN  IF surface = kana THEN surface
        ELSE surface \o <<Ch.lb>> \o segment

\* One iteration of build_furigana's loop for a token surface, with the
\* cursor at reading_index: the text appended to result.
FuriganaPiece(surface, reading_hiragana, reading_index) ==
    LET kana    == convert_to_hiragana(surface)
        segment == Slice(reading_hiragana, reading_index,
                         reading_index + Len(kana))
    IN  IF surface = kana THEN surface
        ELSE surface \o <<Ch.lb>> \o segment \o <<Ch.rb>>

\* The loop with a cursor that never advances: every token is given the
\* slice at the position the loop started from.
FuriganaLoopNoAdvance(tokens, reading_hiragana, reading_index) ==
    Flatten([k \in 1..Len(tokens) |->
                FuriganaPiece(tokens[k], reading_hiragana, reading_index)])

RECURSIVE FuriganaLoop(_, _, _)
FuriganaLoop(tokens, reading_hiragana, reading_index) ==
    IF tokens = <<>> THEN <<>>
    ELSE FuriganaPiece(Head(tokens), reading_hiragana, reading_index)
         \o FuriganaLoop(Tail(tokens), reading_hiragana,
                         reading_index + Len(convert_to_hiragana(Head(tokens))))

\* build_furigana(kanji_word, reading_hiragana) with the tagger's choice cs.
build_furigana(w, cs, reading_hiragana) ==
    FuriganaLoop(tagger(w, cs), reading_hiragana, 0)

----------------------------------------------------------------------------
\* String literals of the sources, as code points.
S_sentence  == <<95, 115, 101, 110, 116, 101, 110, 99, 101>>    \* "_sentence"
S_mp3       == <<46, 109, 112, 51>>                   \* ".mp3"
S_sound     == <<91, 115, 111, 117, 110, 100, 58>>     \* "[sound:"
S_br        == <<60, 98, 114, 62>>                   \* "<br>"
S_img_open  == <<60, 105, 109, 103, 32, 115, 114, 99, 61, 34>>   \* '<img src="'
S_img_close == <<34, 62>>                             \* '">'
S_data_image == <<100, 97, 116, 97, 58, 105, 109, 97, 103, 101, 47>>   \* "data:image/"
S_sentence_ == <<115, 101, 110, 116, 101, 110, 99, 101, 95>>    \* "sentence_"
S_png  == <<112, 110, 103>>
S_jpg  == <<106, 112, 103>>
S_jpeg == <<106, 112, 101, 103>>
S_gif  == <<103, 105, 102>>
S_webp == <<119, 101, 98, 112>>

\* str(n) for n >= 0.
RECURSIVE DecStr(_)
DecStr(n) == IF n < 10 THEN <<48 + n>> ELSE DecStr(n \div 10) \o <<48 + (n % 10)>>

StartsWith(s, p) == Len(s) >= Len(p) /\ SubSeq(s, 1, Len(p)) = p

\* Position of the first c in s, 0 when there is none.
IndexOf(s, c) ==
    IF \E i \in 1..Len(s) : s[i] = c
    THEN CHOOSE i \in 1..Len(s) : s[i] = c /\ \A j \in 1..(i - 1) : s[j] # c
    ELSE 0

\* s up to (not including) the first c; all of s when there is none.
UpTo(s, c) == IF IndexOf(s, c) = 0 THEN s ELSE SubSeq(s, 1, IndexOf(s, c) - 1)

\* s after the first c (c occurs in s).
After(s, c) == SubSeq(s, IndexOf(s, c) + 1, Len(s))

\* str.lower() on ASCII letters.
Lower(s) == [i \in 1..Len(s) |-> IF 65 <= s[i] /\ s[i] <= 90 THEN s[i] + 32 ELSE s[i]]

----------------------------------------------------------------------------
\* services/anki_builder.py: build_anki_note

\* Value of a base64 character, -1 for a character outside the alphabet.
B64Val(c) ==
    IF 65 <= c /\ c <= 90 THEN c - 65
    ELSE IF 97 <= c /\ c <= 122 THEN c - 71
    ELSE IF 48 <= c /\ c <= 57 THEN c + 4
    ELSE IF c = 43 THEN 62
    ELSE IF c = 47 THEN 63
    ELSE -1

B64Data(p) == SelectSeq(p, LAMBDA c : B64Val(c) >= 0)
B64Pads(p) == Len(SelectSeq(p, LAMBDA c : c = 61))

\* base64.b64decode raises binascii.Error on incorrect padding.
B64Raises(p) ==
    LET r == Len(B64Data(p)) % 4
    IN  ~(r = 0 \/ (r = 2 /\ B64Pads(p) >= 2) \/ (r = 3 /\ B64Pads(p) >= 1))

RECURSIVE B64Bytes(_)
B64Bytes(d) ==
    IF Len(d) < 2 THEN <<>>
    ELSE LET a  == B64Val(d[1])
             b  == B64Val(d[2])
             b1 == a * 4 + b \div 16
         IN  IF Len(d) = 2 THEN <<b1>>
             ELSE LET c  == B64Val(d[3])
                      b2 == (b % 16) * 16 + c \div 4
                  IN  IF Len(d) = 3 THEN <<b1, b2>>
                      ELSE <<b1, b2, (c % 4) * 64 + B64Val(d[4])>>
                           \o B64Bytes(SubSeq(d, 5, Len(d)))

\* base64.b64decode(encoded), when it does not raise.
b64decode(p) == B64Bytes(B64Data(p))

\* The digest: a many-to-one function from byte strings to the 32-bit values
\* that hexdigest()[:8] can render (for the short contents used here the
\* value stays far below 2^32, so no reduction is needed).
RECURSIVE SumBytes(_)
SumBytes(b) == IF b = <<>> THEN 0 ELSE Head(b) + SumBytes(Tail(b))

Digest32(b) == SumBytes(b) + 31 * Len(b)

HexDigit(d) == IF d < 10 THEN 48 + d ELSE 87 + d

RECURSIVE HexStr(_, _)
HexStr(n, width) ==
    IF width = 0 THEN <<>>
    ELSE HexStr(n \div 16, width - 1) \o <<HexDigit(n % 16)>>

image_hash(image_bytes) == HexStr(Digest32(image_bytes), 8)

\* ext_map.get(image_format.lower(), "png")
ExtOf(image_format) ==
    LET f == Lower(image_format)
    IN  IF f = S_jpeg \/ f = S_jpg THEN S_jpg
        ELSE IF f = S_png THEN S_png
        ELSE IF f = S_gif THEN S_gif
        ELSE IF f = S_webp THEN S_webp
        ELSE S_png

\* header.split("/")[1].split(";")[0] for a header starting "data:image/".
ImageFormat(header) == UpTo(UpTo(After(header, 47), 47), 59)

\* The image part of build_anki_note: what the try block leaves behind.
\*   made    an image entry was appended
\*   raised  the except branch ran
ImageOf(sentence_image_data) ==
    LET none == [made |-> FALSE, raised |-> FALSE, data |-> <<>>, filename |-> <<>>]
    IN  IF sentence_image_data = <<>> THEN none
        ELSE IF ~StartsWith(sentence_image_data, S_data_image) THEN none
        ELSE IF IndexOf(sentence_image_data, 44) = 0
             THEN [none EXCEPT !.raised = TRUE]
        ELSE LET header  == UpTo(sentence_image_data, 44)
                 encoded == After(sentence_image_data, 44)
             IN  IF B64Raises(encoded) THEN [none EXCEPT !.raised = TRUE]
                 ELSE [made |-> TRUE, raised |-> FALSE,
                       data |-> b64decode(encoded),
                       filename |-> S_sentence_ \o image_hash(b64decode(encoded))
                                    \o <<46>> \o ExtOf(ImageFormat(header))]

\* "".join(f"[sound:{basename}]" for each path), and the audio records.
RECURSIVE SoundTags(_)
SoundTags(paths) ==
    IF paths = <<>> THEN <<>>
    ELSE S_sound \o Head(paths).name \o <<93>> \o SoundTags(Tail(paths))

\* The audio records collected in reverse list order.
AudioRecordsReversed(paths) ==
    [i \in 1..Len(paths) |->
        [path |-> paths[Len(paths) + 1 - i],
         filename |-> paths[Len(paths) + 1 - i].name]]

AudioRecords(paths) ==
    [i \in 1..Len(paths) |-> [path |-> paths[i], filename |-> paths[i].name]]

\* "<br>".join(parts) for the non-empty ones of two parts.
JoinBr(a, b) ==
    IF a # <<>> /\ b # <<>> THEN a \o S_br \o b
    ELSE IF a # <<>> THEN a ELSE b

build_anki_note(word) ==
    LET vocabulary_kanji == IF word.kanji # <<>> THEN word.kanji
                            ELSE word.reading_hiragana
        reading_furigana == IF word.kanji # <<>> THEN word.reading_furigana
                            ELSE <<>>
        img       == ImageOf(word.sentence_image)
        img_field == IF img.made
                     THEN S_img_open \o img.filename \o S_img_close ELSE <<>>
        english   == IF ~img.made THEN word.sentence_english
                     ELSE IF word.sentence_english # <<>>
                          THEN word.sentence_english \o S_br \o S_br \o img_field
                          ELSE img_field
    IN  [fields |->
            [VocabularyKanji    |-> vocabulary_kanji,
             VocabularyFurigana |-> word.reading_hiragana,
             VocabularyKana     |-> word.reading_hiragana,
             VocabularyEnglish  |-> word.translation,
             VocabularyAudio    |-> SoundTags(word.audio_paths),
             VocabularyPos      |-> <<>>,
             Caution            |-> <<>>,
             Expression         |-> vocabulary_kanji,
             Reading            |-> JoinBr(reading_furigana, word.sentence_kana),
             SentenceKana       |-> word.sentence_kana,
             SentenceEnglish    |-> english,
             SentenceClozed     |-> <<>>,
             SentenceAudio      |-> SoundTags(word.sentence_audio_paths),
             SentenceImage      |-> img_field,
             Notes              |-> <<>>,
             CoreIndex          |-> <<>>,
             OptimizedVocIndex  |-> <<>>,
             OptimizedSentIndex |-> <<>>],
         audio  |-> AudioRecords(word.audio_paths)
                    \o AudioRecords(word.sentence_audio_paths),
         images |-> IF img.made
                    THEN <<[data |-> img.data, filename |-> img.filename]>>
                    ELSE <<>>]

----------------------------------------------------------------------------
\* services/vocabulary_processor.py and services/audio_generator.py

\* audio_count values: JSON null, an integer, or a string (numeric or not).
AcNull     == [kind |-> "null", n |-> 0]
AcInt(n)   == [kind |-> "int", n |-> n]
AcNumStr(n) == [kind |-> "numstr", n |-> n]
AcBadStr   == [kind |-> "badstr", n |-> 0]

\* The "kanji" entry of a word: None, or an object {kanji, furigana}.
NoKanji == [some |-> FALSE, kanji |-> <<>>, furigana |-> <<>>]
KanjiObj(k, f) == [some |-> TRUE, kanji |-> k, furigana |-> f]

NoCur == [kanji |-> <<>>, reading_hiragana |-> <<>>, reading_furigana |-> <<>>,
          audio_files |-> <<>>, sentence_audio_files |-> <<>>]

\* _determine_audio_filename with the branches exchanged on the katakana
\* test: the pure-katakana predicate in place of the contains-katakana one.
AudioFilenamePureTest(kanji, reading, reading_hiragana) ==
    IF kanji # <<>> THEN kanji \o <<40>> \o reading_hiragana \o <<41>>
    ELSE IF is_pure_katakana(reading) THEN reading
    ELSE reading_hiragana

\* _determine_audio_filename (None and "" are both falsy; <<>> stands for
\* either).
determine_audio_filename(kanji, reading, reading_hiragana) ==
    IF kanji # <<>> THEN kanji \o <<40>> \o reading_hiragana \o <<41>>
    ELSE IF is_katakana(reading) THEN reading
    ELSE reading_hiragana

\* process_word's normalisation with the katakana branch lost.
NormalizeAlwaysConvert(reading) ==
    [kept |-> FALSE, value |-> convert_to_hiragana(reading)]

\* process_word, lines 80-87: the reading, kept or transliterated.
NormalizeReading(reading) ==
    IF is_pure_katakana(reading)
    THEN [kept |-> TRUE, value |-> reading]
    ELSE [kept |-> FALSE, value |-> convert_to_hiragana(reading)]

\* process_word, lines 72-95: kanji, reading_hiragana and reading_furigana.
WordReadings(w, cs) ==
    LET kanji == IF w.kanji_data.some THEN w.kanji_data.kanji ELSE <<>>
        rf0   == IF w.kanji_data.some THEN w.kanji_data.furigana ELSE <<>>
        rh    == NormalizeReading(w.reading).value
        rf1   == IF kanji # <<>> /\ rf0 = <<>>
                 THEN build_furigana(kanji, cs, rh) ELSE rf0
    IN  [kanji |-> kanji,
         reading_hiragana |-> rh,
         reading_furigana |-> IF kanji = <<>> THEN rh ELSE rf1,
         audio_files |-> <<>>, sentence_audio_files |-> <<>>]

\* "audio_count is not None and audio_count > 0" raises TypeError for a str.
AudioTestRaises(w) == w.audio_count.kind \in {"numstr", "badstr"}
AudioWanted(w) == w.audio_count.kind = "int" /\ w.audio_count.n > 0

\* generate_audio_variants: the i-th file of a base name.
AudioPath(dir, file_name_base, i) ==
    [dir |-> dir, name |-> file_name_base \o <<95>> \o DecStr(i) \o S_mp3]

CurWord == vocab[idx]

\* The loop of generate_audio_variants stopping one variant short.
VocabPendingOneShort ==
    AudioWanted(CurWord) /\ Len(cur.audio_files) < CurWord.audio_count.n - 1

VocabPending ==
    AudioWanted(CurWord) /\ Len(cur.audio_files) < CurWord.audio_count.n
\* The sentence loop run whether or not there is a sentence text.
SentencePendingAnyText ==
    /\ ~VocabPending
    /\ AudioWanted(CurWord)
    /\ Len(cur.sentence_audio_files) < CurWord.audio_count.n

SentencePending ==
    /\ ~VocabPending
    /\ AudioWanted(CurWord) /\ CurWord.sentence_kana # <<>>
    /\ Len(cur.sentence_audio_files) < CurWord.audio_count.n

NoPackage == [written |-> FALSE, dir |-> 0, notes |-> <<>>, media |-> <<>>]

\* No package was returned and no download was answered yet.
NoPath == [dir |-> 0, name |-> "none"]
NoDownload == [found |-> FALSE, name |-> "none", file |-> NoPackage]

ServeIdle ==
    /\ clock = 1 /\ apkg_files = {}
    /\ apkg_path = NoPath /\ served = NoDownload

EntryIdle == request = <<>> /\ dirs = {} /\ ServeIdle

PkgEmpty ==
    /\ deck = <<>> /\ notes_added = 0 /\ media_files = <<>>
    /\ image_files = {} /\ image_log = <<>> /\ package = NoPackage

PkgIdle == results_dir = 0 /\ PkgEmpty

WordIdle ==
    /\ vocab = <<>> /\ idx = 0 /\ cur = NoCur /\ norm_kept = FALSE
    /\ results = <<>> /\ disk = {} /\ synth_log = <<>>
    /\ audio_dir = [run |-> 0, sub |-> "Audio"]
    /\ PkgIdle

\* process_word up to the first synthesis call.
WordStart ==
    /\ pc = "word"
    /\ \E cs \in SUBSET (2..MaxWordLen) :
           /\ cur' = WordReadings(CurWord, cs)
           /\ norm_kept' = NormalizeReading(CurWord.reading).kept
    /\ pc' = IF AudioTestRaises(CurWord) THEN "crashed" ELSE "audio"
    /\ UNCHANGED <<vocab, idx, results, disk, synth_log, audio_dir>>
    /\ UNCHANGED <<textVars, furiVars, pkgVars, entryVars>>

\* generate_audio_file: one synthesis call, written to file_path.
Synthesize(t, path) ==
    /\ synth_log' = Append(synth_log, [text |-> t, path |-> path])
    /\ disk' = {f \in disk : f.path # path} \cup {[path |-> path, text |-> t]}

\* One iteration of generate_audio_variants for the vocabulary audio.
SynthVocab ==
    /\ pc = "audio" /\ VocabPending
    /\ LET base == determine_audio_filename(cur.kanji, CurWord.reading,
                                            cur.reading_hiragana)
           path == AudioPath(audio_dir, base, Len(cur.audio_files) + 1)
       IN  /\ Synthesize(cur.reading_hiragana, path)
           /\ cur' = [cur EXCEPT !.audio_files = Append(@, path)]
    /\ UNCHANGED <<pc, vocab, idx, results, norm_kept, audio_dir>>
    /\ UNCHANGED <<textVars, furiVars, pkgVars, entryVars>>

\* One iteration of generate_audio_variants for the sentence audio.
SynthSentence ==
    /\ pc = "audio" /\ SentencePending
    /\ LET base == determine_audio_filename(cur.kanji, CurWord.reading,
                                            cur.reading_hiragana) \o S_sentence
           path == AudioPath(audio_dir, base, Len(cur.sentence_audio_files) + 1)
       IN  /\ Synthesize(CurWord.sentence_kana, path)
           /\ cur' = [cur EXCEPT !.sentence_audio_files = Append(@, path)]
    /\ UNCHANGED <<pc, vocab, idx, results, norm_kept, audio_dir>>
    /\ UNCHANGED <<textVars, furiVars, pkgVars, entryVars>>

\* generate_audio_file when the synthesis call raises: the exception leaves
\* generate_audio_variants, process_word and process_vocabulary, none of
\* which catches it.  The request is made either by convert() itself or on
\* the first read of the stream it returns, which happens after file_path
\* was opened for writing: the file is then absent or left truncated.
SynthFail ==
    /\ pc = "audio" /\ (VocabPending \/ SentencePending)
    /\ LET base == determine_audio_filename(cur.kanji, CurWord.reading,
                                            cur.reading_hiragana)
           path == IF VocabPending
                   THEN AudioPath(audio_dir, base, Len(cur.audio_files) + 1)
                   ELSE AudioPath(audio_dir, base \o S_sentence,
                                  Len(cur.sentence_audio_files) + 1)
           t    == IF VocabPending THEN cur.reading_hiragana
                   ELSE CurWord.sentence_kana
       IN  /\ synth_log' = Append(synth_log, [text |-> t, path |-> path])
           /\ \E opened \in BOOLEAN :
                  disk' = IF opened
                          THEN {f \in disk : f.path # path}
                                   \cup {[path |-> path, text |-> <<>>]}
                          ELSE disk
    /\ pc' = "synth_error"
    /\ UNCHANGED <<vocab, idx, cur, results, norm_kept, audio_dir>>
    /\ UNCHANGED <<textVars, furiVars, pkgVars, entryVars>>

\* The item process_word returns, with its note attached.
ItemOf(w, c) ==
    LET item == [kanji |-> c.kanji,
                 reading_hiragana |-> c.reading_hiragana,
                 reading_furigana |-> c.reading_furigana,
                 translation |-> w.translation,
                 audio_paths |-> c.audio_files,
                 sentence_kana |-> w.sentence_kana,
                 sentence_english |-> w.sentence_english,
                 sentence_image |-> w.sentence_image,
                 sentence_audio_paths |-> c.sentence_audio_files,
                 generation_mode |-> w.generation_mode]
    IN  [item |-> item, anki_note |-> build_anki_note(item)]

\* The rest of process_word, and process_vocabulary's append.
WordFinish ==
    /\ pc = "audio" /\ ~VocabPending /\ ~SentencePending
    /\ results' = Append(results, ItemOf(CurWord, cur))
    /\ idx' = idx + 1
    /\ cur' = NoCur
    /\ pc' = IF idx = Len(vocab) THEN "processed" ELSE "word"
    /\ UNCHANGED <<vocab, disk, synth_log, norm_kept, audio_dir>>
    /\ UNCHANGED <<textVars, furiVars, pkgVars, entryVars>>

----------------------------------------------------------------------------
\* services/anki_builder.py: create_anki_package

\* The directory of an audio or image file: a results directory (numbered
\* by its timestamp) and the subdirectory in it.
AudioDirOf(rdir) == [run |-> rdir, sub |-> "Audio"]
MediaDirOf(rdir) == [run |-> rdir, sub |-> "Media"]

\* The eighteen field values in the order of the note model, the headword,
\* reading (Vocabulary-Kana) and translation given separately.
FieldList(f, headword, kana, english) ==
    <<headword, f.VocabularyFurigana, kana, english, f.VocabularyAudio,
      f.VocabularyPos, f.Caution, f.Expression, f.Reading, f.SentenceKana,
      f.SentenceEnglish, f.SentenceClozed, f.SentenceAudio, f.SentenceImage,
      f.Notes, f.CoreIndex, f.OptimizedVocIndex, f.OptimizedSentIndex>>

\* The forward test with the whitespace strip forgotten.
ShouldCreateJpEnNoStrip(it) ==
    /\ it.anki_note.fields.VocabularyKanji # <<>>
    /\ it.item.generation_mode \in {"both", "jp_en"}

\* should_create_jp_en (lines 316-319).
should_create_jp_en(it) ==
    /\ StripTruthy(it.anki_note.fields.VocabularyKanji)
    /\ it.item.generation_mode \in {"both", "jp_en"}

\* The reverse test with the whitespace strip forgotten.
ShouldCreateEnJpNoStrip(it) ==
    /\ it.anki_note.fields.VocabularyEnglish # <<>>
    /\ it.item.generation_mode \in {"both", "en_jp"}

\* should_create_en_jp (lines 355-358).
should_create_en_jp(it) ==
    /\ StripTruthy(it.anki_note.fields.VocabularyEnglish)
    /\ it.item.generation_mode \in {"both", "en_jp"}

\* The reverse note's translation field left truly empty.
PlaceholderEmpty == <<>>

\* The two spaces put in the Vocabulary-English field of a reverse note
\* (line 369).
placeholder == <<Ch.sp, Ch.sp>>

\* The kanji test taken to succeed for every item.
HasKanjiAlways(it) == TRUE

\* has_kanji (line 313): item.get("kanji") and item.get("kanji").strip().
has_kanji(it) == it.item.kanji # <<>> /\ StripTruthy(it.item.kanji)

\* The notes of one item with the reverse note added first.
NotesOfItemReverseFirst(it, k) ==
    LET f     == it.anki_note.fields
        jp_en == [model |-> "jp_en", src |-> k,
                  fields |-> FieldList(f, f.VocabularyKanji,
                                       IF has_kanji(it)
                                       THEN f.VocabularyKana ELSE <<>>,
                                       f.VocabularyEnglish)]
        en_jp == [model |-> "en_jp", src |-> k,
                  fields |-> FieldList(f, f.VocabularyEnglish, f.VocabularyKana,
                                       placeholder)]
    IN  (IF should_create_en_jp(it) THEN <<en_jp>> ELSE <<>>)
        \o (IF should_create_jp_en(it) THEN <<jp_en>> ELSE <<>>)

\* The notes one item adds to the deck (lines 309-387), forward first.  src
\* records the position of the item the note came from.
NotesOfItem(it, k) ==
    LET f     == it.anki_note.fields
        jp_en == [model |-> "jp_en", src |-> k,
                  fields |-> FieldList(f, f.VocabularyKanji,
                                       IF has_kanji(it) THEN f.VocabularyKana
                                       ELSE <<>>,
                                       f.VocabularyEnglish)]
        en_jp == [model |-> "en_jp", src |-> k,
                  fields |-> FieldList(f, f.VocabularyEnglish, f.VocabularyKana,
                                       placeholder)]
    IN  (IF should_create_jp_en(it) THEN <<jp_en>> ELSE <<>>)
        \o (IF should_create_en_jp(it) THEN <<en_jp>> ELSE <<>>)

\* The audio paths one item contributes (lines 389-394): those that exist.
AudioMediaOfItem(it, files) ==
    SelectSeq([i \in 1..Len(it.anki_note.audio) |-> it.anki_note.audio[i].path],
              LAMBDA p : \E f \in files : f.path = p)

\* The image files one item writes (lines 396-408).
ImageWritesOfItem(it, rdir) ==
    LET usable == SelectSeq(it.anki_note.images,
                            LAMBDA im : im.data # <<>> /\ im.filename # <<>>)
    IN  [i \in 1..Len(usable) |->
            [path |-> [dir |-> MediaDirOf(rdir), name |-> usable[i].filename],
             data |-> usable[i].data]]

RECURSIVE WriteAll(_, _)
WriteAll(files, writes) ==
    IF writes = <<>> THEN files
    ELSE WriteAll({f \in files : f.path # Head(writes).path} \cup {Head(writes)},
                  Tail(writes))

PathsOf(writes) == [i \in 1..Len(writes) |-> writes[i].path]

\* One iteration of the loop over results (lines 281-408).
PkgItem ==
    /\ pc = "package" /\ idx <= Len(results)
    /\ LET it     == results[idx]
           notes  == NotesOfItem(it, idx)
           writes == ImageWritesOfItem(it, results_dir)
       IN  /\ deck' = deck \o notes
           /\ notes_added' = notes_added + Len(notes)
           /\ media_files' = media_files \o AudioMediaOfItem(it, disk)
                                         \o PathsOf(writes)
           /\ image_files' = WriteAll(image_files, writes)
           /\ image_log' = image_log \o writes
    /\ idx' = idx + 1
    /\ UNCHANGED <<pc, package, results_dir>>
    /\ UNCHANGED <<vocab, cur, norm_kept, results, disk, synth_log, audio_dir>>
    /\ UNCHANGED <<textVars, furiVars, entryVars>>

\* The elements of a list, as a set.
Range(l) == {l[i] : i \in 1..Len(l)}

\* All the orders a set can be listed in.
RECURSIVE Orders(_)
Orders(S) ==
    IF S = {} THEN {<<>>}
    ELSE UNION {{<<x>> \o o : o \in Orders(S \ {x})} : x \in S}

\* The media list handed over as collected, duplicates and all.
ListKeepAll(l) == {l}

\* list(set(media_files)) (line 418): each distinct path once, in whichever
\* order the set iterates; the lists that can result.
list_set(l) == Orders(Range(l))

\* Lines 410-412: no note was added, ValueError.
PkgRaiseEmpty ==
    /\ pc = "package" /\ idx > Len(results)
    /\ notes_added = 0
    /\ pc' = "package_error"
    /\ UNCHANGED <<idx, pkgVars, wordData>>
    /\ UNCHANGED <<textVars, furiVars, entryVars>>

\* package.write_to_file(results_dir / "vocabulary.apkg") (lines 421-422):
\* the file of that directory is created or replaced.
write_to_file(files, pkg) == {f \in files : f.dir # pkg.dir} \cup {pkg}

\* The package written without the test for an empty deck.
PkgWriteUnguarded ==
    /\ pc = "package" /\ idx > Len(results)
    /\ \E m \in list_set(media_files) :
           package' = [written |-> TRUE, dir |-> results_dir, notes |-> deck,
                       media |-> m]
    /\ apkg_files' = write_to_file(apkg_files, package')
    /\ pc' = "packaged"
    /\ UNCHANGED <<idx, deck, notes_added, media_files, image_files, image_log,
                   results_dir, wordData>>
    /\ UNCHANGED <<textVars, furiVars, request, dirs, clock, apkg_path, served>>

\* Lines 414-425: media list deduplicated, vocabulary.apkg written.
PkgWrite ==
    /\ pc = "package" /\ idx > Len(results)
    /\ notes_added # 0
    /\ \E m \in list_set(media_files) :
           package' = [written |-> TRUE, dir |-> results_dir, notes |-> deck,
                       media |-> m]
    /\ apkg_files' = write_to_file(apkg_files, package')
    /\ pc' = "packaged"
    /\ UNCHANGED <<idx, deck, notes_added, media_files, image_files, image_log,
                   results_dir, wordData>>
    /\ UNCHANGED <<textVars, furiVars, request, dirs, clock, apkg_path, served>>

----------------------------------------------------------------------------
\* process_word on one word of any shape.

ReadingAlphabet == {Ch.sp, Ch.hiNe, Ch.kaNe, Ch.long, Ch.kj}

KanjiInputs ==
    {NoKanji}
    \cup {KanjiObj(k, f) :
            k \in {<<>>, <<Ch.sp>>, <<Ch.kj>>, <<Ch.kj, Ch.hiKo>>},
            f \in {<<>>, <<Ch.kj, Ch.lb, Ch.hiNe, Ch.hiKo, Ch.rb>>}}

Word(r, k, t, sk, se, si, ac, gm) ==
    [reading |-> r, kanji_data |-> k, translation |-> t,
     sentence_kana |-> sk, sentence_english |-> se, sentence_image |-> si,
     audio_count |-> ac, generation_mode |-> gm]

WordInputs ==
    {Word(r, k, <<Ch.lat>>, sk, <<>>, <<>>, ac, "both") :
        r \in Strs(ReadingAlphabet, MaxReadingLen),
        k \in KanjiInputs,
        sk \in {<<>>, <<Ch.hiKo>>},
        ac \in {AcNull} \cup {AcInt(n) : n \in 0..MaxAudioCount}}

InitWord ==
    /\ pc = "word"
    /\ vocab \in {<<w>> : w \in WordInputs}
    /\ idx = 1
    /\ cur = NoCur /\ norm_kept = FALSE
    /\ results = <<>> /\ disk = {} /\ synth_log = <<>>
    /\ results_dir = 1 /\ audio_dir = [run |-> 1, sub |-> "Audio"]
    /\ PkgEmpty
    /\ request = vocab /\ dirs = {1} /\ ServeIdle
    /\ TextIdle /\ FuriIdle

NextWord ==
    WordStart \/ SynthVocab \/ SynthSentence \/ SynthFail \/ WordFinish

SpecWord == InitWord /\ [][NextWord]_vars

----------------------------------------------------------------------------
\* create_anki_package on the results of a processed batch.

\* What process_word returns for w when every synthesis call succeeds.
ProcessedWord(w, cs, adir) ==
    LET r    == WordReadings(w, cs)
        n    == IF AudioWanted(w) THEN w.audio_count.n ELSE 0
        base == determine_audio_filename(r.kanji, w.reading, r.reading_hiragana)
    IN  ItemOf(w, [r EXCEPT
                     !.audio_files = [i \in 1..n |-> AudioPath(adir, base, i)],
                     !.sentence_audio_files =
                         IF w.sentence_kana # <<>>
                         THEN [i \in 1..n |-> AudioPath(adir, base \o S_sentence, i)]
                         ELSE <<>>])

\* The synthesis calls made for one processed item, in order.
CallsOfItem(it) ==
    [i \in 1..Len(it.item.audio_paths) |->
        [text |-> it.item.reading_hiragana, path |-> it.item.audio_paths[i]]]
    \o [i \in 1..Len(it.item.sentence_audio_paths) |->
        [text |-> it.item.sentence_kana, path |-> it.item.sentence_audio_paths[i]]]

CallsOfItems(items) == Flatten([k \in 1..Len(items) |-> CallsOfItem(items[k])])

\* All batches over a word universe U of at most n words.
Batches(U, n) == UNION {[1..k -> U] : k \in 0..n}

\* The state create_anki_package starts in, the audio files apart.
InitPkgState(U) ==
    /\ pc = "package"
    /\ vocab \in Batches(U, MaxBatch)
    /\ results_dir = 1
    /\ audio_dir = AudioDirOf(1)
    /\ results = [k \in 1..Len(vocab) |-> ProcessedWord(vocab[k], {}, audio_dir)]
    /\ synth_log = CallsOfItems(results)
    /\ idx = 1
    /\ cur = NoCur /\ norm_kept = FALSE
    /\ PkgEmpty
    /\ request = vocab /\ dirs = {1} /\ ServeIdle
    /\ TextIdle /\ FuriIdle

\* The same with every synthesized audio file in place.
InitPkgOver(U) == InitPkgState(U) /\ disk = WriteAll({}, synth_log)

NextPkg == PkgItem \/ PkgRaiseEmpty \/ PkgWrite

\* Words that differ in headword, translation and generation mode.
NoteWords ==
    {Word(h[1], h[2], t, <<>>, <<>>, <<>>, AcNull, gm) :
        h \in {<<<<Ch.hiNe>>, NoKanji>>,
               <<<<Ch.sp>>, NoKanji>>,
               <<<<Ch.hiNe, Ch.hiKo>>,
                 KanjiObj(<<Ch.kj>>, <<Ch.kj, Ch.lb, Ch.hiNe, Ch.hiKo, Ch.rb>>)>>,
               <<<<Ch.hiNe>>, KanjiObj(<<Ch.sp>>, <<>>)>>},
        t \in {<<>>, <<Ch.sp>>, <<Ch.lat>>},
        gm \in {"both", "jp_en", "en_jp", "none"}}

InitPkg == InitPkgOver(NoteWords)

SpecPkg == InitPkg /\ [][NextPkg]_vars

\* Words that differ in embedded image, audio and eligibility.
DataUrl(subtype, payload) ==
    S_data_image \o subtype \o <<59, 98, 97, 115, 101, 54, 52, 44>> \o payload

ImageInputs ==
    {<<>>,
     DataUrl(S_png, <<81, 81, 61, 61>>),     \* bytes "A"
     DataUrl(S_jpeg, <<81, 81, 61, 61>>),    \* bytes "A", declared jpeg
     DataUrl(S_png, <<81, 82, 61, 61>>),     \* bytes "A", another encoding
     DataUrl(S_png, <<81, 103, 61, 61>>),     \* bytes "B"
     DataUrl(S_png, <<81>>),        \* incorrect padding
     DataUrl(S_png, <<33>>),        \* "!": no base64 character at all
     S_data_image \o S_png,         \* no comma: the split raises
     <<Ch.lat>>}                    \* no data URL

MediaWords ==
    {Word(<<Ch.hiNe>>, NoKanji, <<Ch.lat>>, <<>>, <<>>, si, ac, gm) :
        si \in ImageInputs,
        ac \in {AcNull, AcInt(1)},
        gm \in {"both", "none"}}

\* The package built from such words; an audio file may have been removed
\* from the Audio directory since it was synthesized.
InitMedia ==
    /\ InitPkgState(MediaWords)
    /\ disk \in SUBSET WriteAll({}, synth_log)

SpecMedia == InitMedia /\ [][NextPkg]_vars

\* Words whose embedded images are distinct contents of one length, two of
\* them with the same digest prefix.
DigestWords ==
    {Word(<<Ch.hiNe>>, NoKanji, <<Ch.lat>>, <<>>, <<>>, si, AcNull, gm) :
        si \in {<<>>,
                DataUrl(S_png, <<81, 85, 73, 61>>),     \* bytes "AB"
                DataUrl(S_png, <<81, 107, 69, 61>>),    \* bytes "BA"
                DataUrl(S_png, <<81, 85, 69, 61>>)},    \* bytes "AA"
        gm \in {"both", "none"}}

InitDigest == InitPkgOver(DigestWords)

SpecDigest == InitDigest /\ [][NextPkg]_vars

----------------------------------------------------------------------------
\* process_vocabulary on a batch of words that share readings.

\* Words without kanji that differ in reading, sentence text and audio.
AudioWords ==
    {Word(r, NoKanji, <<Ch.lat>>, sk, <<>>, <<>>, ac, "both") :
        r \in {<<Ch.hiNe>>, <<Ch.kaNe>>},
        sk \in {<<>>, <<Ch.hiKo>>, <<Ch.hiNe>>},
        ac \in {AcNull, AcInt(1)}}

InitAudio ==
    /\ pc = "word"
    /\ vocab \in Batches(AudioWords, MaxBatch) \ {<<>>}
    /\ idx = 1
    /\ cur = NoCur /\ norm_kept = FALSE
    /\ results = <<>> /\ disk = {} /\ synth_log = <<>>
    /\ results_dir = 1 /\ audio_dir = AudioDirOf(1)
    /\ PkgEmpty
    /\ request = vocab /\ dirs = {1} /\ ServeIdle
    /\ TextIdle /\ FuriIdle

SpecAudio == InitAudio /\ [][NextWord]_vars

----------------------------------------------------------------------------
\* Main.py and api.py: the two entry paths.

\* int(audio_count) raises ValueError / TypeError.
IntRaises(ac) == ac.kind = "badstr"

\* validate_input (Main.py): TRUE when it returns None.
validate_input_rejects(input) ==
    \/ input = <<>>
    \/ \E i \in 1..Len(input) :
           /\ input[i].audio_count.kind # "null"
           /\ (IntRaises(input[i].audio_count) \/ input[i].audio_count.n < 1)

\* The request model (api.py, CardInput.audio_count: Optional[int]): a
\* string that is no number is refused, a numeric string is read as its
\* number.
CardInputRefuses(w) == w.audio_count.kind = "badstr"
CardInputOf(w) ==
    IF w.audio_count.kind = "numstr"
    THEN [w EXCEPT !.audio_count = AcInt(w.audio_count.n)]
    ELSE w

\* The filter of generate_cards for empty cards (lines 108-112).
ValidCard(w) ==
    \/ w.reading # <<>>
    \/ (w.kanji_data.some /\ w.kanji_data.kanji # <<>>)
    \/ w.translation # <<>>

\* main() up to the validation (Main.py lines 44-58).
CliValidate ==
    /\ pc = "cli_start"
    /\ IF validate_input_rejects(request)
       THEN /\ pc' = "invalid"
            /\ UNCHANGED vocab
       ELSE /\ pc' = "setup"
            /\ vocab' = request
    /\ UNCHANGED <<request, dirs, idx, cur, norm_kept, results, disk, synth_log,
                   audio_dir, pkgVars, textVars, furiVars, serveVars>>

\* generate_cards up to the conversion of the cards (api.py lines 101-133),
\* after the request body was parsed into the request model.
ApiValidate ==
    /\ pc = "api_start"
    /\ LET cards == [i \in 1..Len(request) |-> CardInputOf(request[i])]
           valid_cards == SelectSeq(cards, ValidCard)
       IN  IF (\E i \in 1..Len(request) : CardInputRefuses(request[i]))
              \/ request = <<>> \/ valid_cards = <<>>
           THEN /\ pc' = "invalid"
                /\ UNCHANGED vocab
           ELSE /\ pc' = "setup"
                /\ vocab' = valid_cards
    /\ UNCHANGED <<request, dirs, idx, cur, norm_kept, results, disk, synth_log,
                   audio_dir, pkgVars, textVars, furiVars, serveVars>>

\* The directory name create_results_directory forms from the clock,
\* strftime("%Y-%m-%d_%H-%M-%S"): one name per second.
timestamp(second) == second

\* create_results_directory (mkdir with exist_ok: a directory of the same
\* second is reused) and the Audio subdirectory, then the call of
\* process_vocabulary.
Setup ==
    /\ pc = "setup"
    /\ results_dir' = timestamp(clock)
    /\ dirs' = dirs \cup {timestamp(clock)}
    /\ audio_dir' = AudioDirOf(timestamp(clock))
    /\ idx' = 1
    /\ pc' = "word"
    /\ UNCHANGED <<request, vocab, cur, norm_kept, results, disk, synth_log,
                   deck, notes_added, media_files, image_files, image_log,
                   package, textVars, furiVars, serveVars>>

\* The call of create_anki_package on the processed results.
PkgBegin ==
    /\ pc = "processed"
    /\ dirs # {}
    /\ idx' = 1
    /\ pc' = "package"
    /\ UNCHANGED <<request, dirs, wordData, pkgVars, textVars, furiVars,
                   serveVars>>

\* Entries that differ in audio_count and mode, and one with a sentence.
BatchWords ==
    {Word(<<Ch.hiNe>>, NoKanji, <<Ch.lat>>, <<>>, <<>>, <<>>, ac, gm) :
        ac \in {AcNull, AcBadStr, AcNumStr(1)}
               \cup {AcInt(n) : n \in {-1, 0, 1, MaxAudioCount}},
        gm \in {"both", "none"}}
    \cup {Word(<<Ch.hiNe>>, NoKanji, <<Ch.lat>>, <<Ch.hiKo>>, <<>>, <<>>,
               AcInt(1), "both")}

InitBatch ==
    /\ pc \in {"cli_start", "api_start"}
    /\ request \in Batches(BatchWords, MaxBatch)
    /\ dirs = {} /\ ServeIdle
    /\ WordIdle /\ TextIdle /\ FuriIdle

NextBatch ==
    \/ CliValidate \/ ApiValidate \/ Setup
    \/ WordStart \/ SynthVocab \/ SynthSentence \/ SynthFail \/ WordFinish
    \/ PkgBegin \/ PkgItem \/ PkgRaiseEmpty \/ PkgWrite

SpecBatch == InitBatch /\ [][NextBatch]_vars

----------------------------------------------------------------------------
\* api.py: the server answering generate and download requests, one after
\* the other.  Neither handler awaits anything, so a request is handled to
\* its end before the next one starts.

\* The name every package file is written under (anki_builder.py line 421).
apkg_name == "vocabulary.apkg"

\* The states in which no request is being handled: a response or an error
\* was sent.
ServerIdle ==
    pc \in {"responded", "invalid", "crashed", "synth_error", "package_error"}

\* The end of generate_cards (lines 159-169): the path of the written
\* package is returned.
Respond ==
    /\ pc = "packaged"
    /\ apkg_path' = [dir |-> results_dir, name |-> apkg_name]
    /\ pc' = "responded"
    /\ UNCHANGED <<request, dirs, clock, apkg_files, served>>
    /\ UNCHANGED <<textVars, furiVars, wordVars, pkgVars>>

\* Cards a client sends: with and without audio, with a sentence, without
\* any note to create.
ServeWords ==
    {Word(<<Ch.hiNe>>, NoKanji, tr, <<>>, <<>>, <<>>, AcNull, "both") :
        tr \in {<<Ch.lat>>, <<Ch.lat, Ch.lat>>}}
    \cup {Word(<<Ch.hiNe>>, NoKanji, <<Ch.lat>>, <<Ch.hiKo>>, <<>>, <<>>,
               AcInt(1), "both"),
          Word(<<Ch.hiNe>>, NoKanji, <<Ch.lat>>, <<>>, <<>>, <<>>,
               AcNull, "none")}

ServeRequests == {<<w>> : w \in ServeWords}

\* The next generate request arrives: the handler starts with fresh locals,
\* the files on disk stay.
Receive ==
    /\ ServerIdle
    /\ request' \in ServeRequests
    /\ pc' = "api_start"
    /\ vocab' = <<>> /\ idx' = 0 /\ cur' = NoCur /\ norm_kept' = FALSE
    /\ results' = <<>> /\ synth_log' = <<>>
    /\ audio_dir' = [run |-> 0, sub |-> "Audio"]
    /\ results_dir' = 0
    /\ deck' = <<>> /\ notes_added' = 0 /\ media_files' = <<>>
    /\ image_log' = <<>> /\ package' = NoPackage
    /\ served' = NoDownload
    /\ UNCHANGED <<disk, image_files, dirs, clock, apkg_files, apkg_path>>
    /\ UNCHANGED <<textVars, furiVars>>

\* A second passes.
Tick ==
    /\ clock < MaxClock
    /\ clock' = clock + 1
    /\ UNCHANGED <<pc, request, dirs, apkg_files, apkg_path, served>>
    /\ UNCHANGED <<textVars, furiVars, wordVars, pkgVars>>

\* The loop of download_file (lines 183-191) over the directories in the
\* order iterdir yields them: the first one holding the file answers.
RECURSIVE FirstHit(_, _, _)
FirstHit(order, files, filename) ==
    IF order = <<>> THEN NoDownload
    ELSE IF filename = apkg_name /\ \E f \in files : f.dir = Head(order)
         THEN [found |-> TRUE, name |-> filename,
               file |-> CHOOSE f \in files : f.dir = Head(order)]
         ELSE FirstHit(Tail(order), files, filename)

\* download_file: iterdir lists the results directories in an order the
\* file system chooses; no match is answered with 404.
download_file ==
    /\ ServerIdle
    /\ \E filename \in {apkg_name, "other.apkg"} :
       \E order \in Orders(dirs) :
           served' = FirstHit(order, apkg_files, filename)
    /\ UNCHANGED <<pc, request, dirs, clock, apkg_files, apkg_path>>
    /\ UNCHANGED <<textVars, furiVars, wordVars, pkgVars>>

InitServe ==
    /\ pc = "api_start"
    /\ request \in ServeRequests
    /\ dirs = {} /\ ServeIdle
    /\ WordIdle /\ TextIdle /\ FuriIdle

NextServe ==
    \/ ApiValidate \/ Setup
    \/ WordStart \/ SynthVocab \/ SynthSentence \/ SynthFail \/ WordFinish
    \/ PkgBegin \/ PkgItem \/ PkgRaiseEmpty \/ PkgWrite
    \/ Respond \/ Receive \/ Tick \/ download_file

SpecServe == InitServe /\ [][NextServe]_vars

----------------------------------------------------------------------------
\* Calls of the classifier on arbitrary text.

ClassifyAlphabet ==
    {Ch.sp, Ch.lat, Ch.hiNe, Ch.kaNe, Ch.dot, Ch.long, Ch.kj}

InitClassify ==
    /\ pc = "classify"
    /\ text \in Strs(ClassifyAlphabet, MaxTextLen)
    /\ verdict = FALSE
    /\ FuriIdle /\ WordIdle /\ EntryIdle

CallIsPureKatakana ==
    /\ pc = "classify"
    /\ verdict' = is_pure_katakana(text)
    /\ pc' = "classified"
    /\ UNCHANGED <<text, furiVars, wordVars, pkgVars, entryVars>>

NextClassify == CallIsPureKatakana

SpecClassify == InitClassify /\ [][NextClassify]_vars

----------------------------------------------------------------------------
\* Calls of build_furigana on arbitrary words, segmentations and readings.

WordAlphabet == {Ch.kj, Ch.hiKo, Ch.kaNe, Ch.sp, Ch.lb, Ch.rb}
ReadAlphabet == {Ch.hiNe, Ch.hiKo, Ch.rb}

InitFurigana ==
    /\ pc = "furigana"
    /\ kanji_word \in Strs(WordAlphabet, MaxWordLen)
    /\ cuts \in SUBSET (2..MaxWordLen)
    /\ reading_arg \in Strs(ReadAlphabet, MaxReadLen)
    /\ furigana = <<>>
    /\ TextIdle /\ WordIdle /\ EntryIdle

CallBuildFurigana ==
    /\ pc = "furigana"
    /\ furigana' = build_furigana(kanji_word, cuts, reading_arg)
    /\ pc' = "furigana_done"
    /\ UNCHANGED <<textVars, kanji_word, cuts, reading_arg, wordVars, pkgVars, entryVars>>

NextFurigana == CallBuildFurigana

SpecFurigana == InitFurigana /\ [][NextFurigana]_vars

----------------------------------------------------------------------------
\* Properties of the text functions.

\* A katakana letter proper: in the katakana block and neither of the two
\* punctuation marks.
IsKatakanaLetter(c) ==
    12448 <= c /\ c <= 12543 /\ c \notin {Ch.dot, Ch.long}

IsHiragana(c) == 12352 <= c /\ c <= 12447

\* C8: is_pure_katakana(text) is true iff text is non-empty, has no kanji and
\* no hiragana, every character is a katakana letter, whitespace, the
\* prolonged-sound mark or the middle dot, and some character is an actual
\* katakana letter (so it is false for marks and blanks alone).
C8_PureKatakanaIff ==
    pc = "classified" =>
        (verdict <=>
            /\ text # <<>>
            /\ ~is_kanji(text)
            /\ \A i \in 1..Len(text) : ~IsHiragana(text[i])
            /\ \A i \in 1..Len(text) :
                   \/ IsKatakanaLetter(text[i]) \/ IsSpace(text[i])
                   \/ text[i] \in {Ch.dot, Ch.long}
            /\ \E i \in 1..Len(text) : IsKatakanaLetter(text[i]))

\* Removal of every bracketed annotation "[...]", left to right.
RECURSIVE StripFrom(_, _)
StripFrom(s, i) ==
    IF i > Len(s) THEN <<>>
    ELSE IF s[i] = Ch.lb /\ \E j \in (i + 1)..Len(s) : s[j] = Ch.rb
         THEN LET j == CHOOSE k \in (i + 1)..Len(s) :
                           /\ s[k] = Ch.rb
                           /\ \A m \in (i + 1)..(k - 1) : s[m] # Ch.rb
              IN  StripFrom(s, j + 1)
         ELSE <<s[i]>> \o StripFrom(s, i + 1)

StripAnnotations(s) == StripFrom(s, 1)

RECURSIVE KanaSum(_)
KanaSum(tokens) ==
    IF tokens = <<>> THEN 0
    ELSE Len(convert_to_hiragana(Head(tokens))) + KanaSum(Tail(tokens))

HasBracket(s) == \E i \in 1..Len(s) : s[i] \in {Ch.lb, Ch.rb}

\* C5 (as stated): for a word holding kanji, whenever the tokens' hiragana lengths sum to the length of
\* the reading, the output of build_furigana with every "[...]" removed is the
\* concatenation of the token surfaces.
C5_StripGivesSurface ==
    (pc = "furigana_done"
     /\ is_kanji(kanji_word)
     /\ KanaSum(tagger(kanji_word, cuts)) = Len(reading_arg))
        => StripAnnotations(furigana) = Flatten(tagger(kanji_word, cuts))

\* C5 (amended): the same, for a word and a reading that hold no bracket
\* character themselves.
C5_StripGivesSurfaceNoBrackets ==
    (pc = "furigana_done"
     /\ is_kanji(kanji_word)
     /\ KanaSum(tagger(kanji_word, cuts)) = Len(reading_arg)
     /\ ~HasBracket(kanji_word) /\ ~HasBracket(reading_arg))
        => StripAnnotations(furigana) = Flatten(tagger(kanji_word, cuts))

\* C5 witness: a two-token kanji word whose kana lengths match the reading
\* and whose output carries an annotation.
C5_Witness ==
    /\ pc = "furigana_done"
    /\ Len(tagger(kanji_word, cuts)) = 2
    /\ is_kanji(kanji_word)
    /\ KanaSum(tagger(kanji_word, cuts)) = Len(reading_arg)
    /\ ~HasBracket(kanji_word) /\ ~HasBracket(reading_arg)
    /\ HasBracket(furigana)

----------------------------------------------------------------------------
\* Properties of process_word.

InKatakanaBlock(c) == 12448 <= c /\ c <= 12543

\* The base name the audio files of word w must carry, given its item.
C6_Base(w, it) ==
    IF it.kanji # <<>>
    THEN it.kanji \o <<40>> \o it.reading_hiragana \o <<41>>
    ELSE IF \E i \in 1..Len(w.reading) : InKatakanaBlock(w.reading[i])
         THEN w.reading
         ELSE it.reading_hiragana

\* C6: the audio base name is "kanji(reading_hiragana)" when a kanji surface
\* is present, else the original reading verbatim when it holds a character
\* of the katakana block, else the hiragana reading; vocabulary audio file i
\* is base_i.mp3 and sentence audio file i is base_sentence_i.mp3.
C6_AudioBaseName ==
    \A k \in 1..Len(results) :
        LET w  == vocab[k]
            it == results[k].item
        IN  /\ \A i \in 1..Len(it.audio_paths) :
                   it.audio_paths[i].name =
                       C6_Base(w, it) \o <<95>> \o DecStr(i) \o S_mp3
            /\ \A i \in 1..Len(it.sentence_audio_paths) :
                   it.sentence_audio_paths[i].name =
                       C6_Base(w, it) \o S_sentence \o <<95>> \o DecStr(i) \o S_mp3

\* C6 witness: a processed word without kanji whose mixed reading holds
\* katakana, with two vocabulary and two sentence audio files.
C6_Witness ==
    /\ pc = "processed"
    /\ Len(results) = 1
    /\ results[1].item.kanji = <<>>
    /\ is_katakana(vocab[1].reading)
    /\ results[1].item.reading_hiragana # vocab[1].reading
    /\ Len(results[1].item.audio_paths) = 2
    /\ Len(results[1].item.sentence_audio_paths) = 2

\* Pure katakana in the sense of the specification: only katakana letters,
\* whitespace and the two marks, with at least one katakana letter.
C7_Pure(t) ==
    /\ \A i \in 1..Len(t) :
           IsKatakanaLetter(t[i]) \/ IsSpace(t[i]) \/ t[i] \in {Ch.dot, Ch.long}
    /\ \E i \in 1..Len(t) : IsKatakanaLetter(t[i])

\* C7: for a pure-katakana reading, reading_hiragana is the reading itself
\* and the transliteration is not applied to it; for every other reading,
\* reading_hiragana is the transliteration of the reading.
C7_NormalizedReading ==
    /\ pc = "audio" =>
          /\ C7_Pure(CurWord.reading) =>
                 (cur.reading_hiragana = CurWord.reading /\ norm_kept)
          /\ ~C7_Pure(CurWord.reading) =>
                 cur.reading_hiragana = convert_to_hiragana(CurWord.reading)
    /\ \A k \in 1..Len(results) :
          /\ C7_Pure(vocab[k].reading) =>
                 results[k].item.reading_hiragana = vocab[k].reading
          /\ ~C7_Pure(vocab[k].reading) =>
                 results[k].item.reading_hiragana
                     = convert_to_hiragana(vocab[k].reading)

\* C7 witness: a processed pure-katakana reading, which transliteration
\* would have changed.
C7_Witness ==
    /\ pc = "processed"
    /\ Len(results) = 1
    /\ C7_Pure(vocab[1].reading)
    /\ Len(vocab[1].reading) = 2
    /\ convert_to_hiragana(vocab[1].reading) # vocab[1].reading
    /\ results[1].item.reading_hiragana = vocab[1].reading

\* C9: in every item process_word returns, reading_furigana is non-empty
\* whenever reading_hiragana is non-empty.
C9_FuriganaNonEmpty ==
    \A k \in 1..Len(results) :
        results[k].item.reading_hiragana # <<>>
            => results[k].item.reading_furigana # <<>>

----------------------------------------------------------------------------
\* Properties of create_anki_package.

\* Not blank once whitespace is stripped.
NonBlank(s) == \E i \in 1..Len(s) : ~IsSpace(s[i])

\* The headword of an item: the kanji surface, or the hiragana reading when
\* there is no kanji.
Headword(it) ==
    IF it.item.kanji # <<>> THEN it.item.kanji ELSE it.item.reading_hiragana

ForwardDue(it) ==
    it.item.generation_mode \in {"both", "jp_en"} /\ NonBlank(Headword(it))
ReverseDue(it) ==
    it.item.generation_mode \in {"both", "en_jp"} /\ NonBlank(it.item.translation)

\* The notes of the deck that came from item k, in deck order.
NotesFrom(k) == SelectSeq(deck, LAMBDA n : n.src = k)
ModelsFrom(k) == [i \in 1..Len(NotesFrom(k)) |-> NotesFrom(k)[i].model]

\* The items the loop of create_anki_package has been through.
Handled == IF pc \in {"package", "package_error", "packaged"}
           THEN 1..(idx - 1) ELSE {}

\* C1: an item adds a forward note iff its mode is "both" or "jp_en" and its
\* headword is non-blank, and a reverse note iff its mode is "both" or
\* "en_jp" and its translation is non-blank: 0, 1 or 2 notes, 2 when both
\* texts are non-blank and the mode is "both", 0 for any other mode value.
C1_NotesPerItem ==
    \A k \in Handled :
        LET it == results[k] IN
        /\ ModelsFrom(k) =
               (IF ForwardDue(it) THEN <<"jp_en">> ELSE <<>>)
               \o (IF ReverseDue(it) THEN <<"en_jp">> ELSE <<>>)
        /\ (NonBlank(Headword(it)) /\ NonBlank(it.item.translation)
            /\ it.item.generation_mode = "both") => Len(NotesFrom(k)) = 2
        /\ it.item.generation_mode \notin {"both", "jp_en", "en_jp"}
               => Len(NotesFrom(k)) = 0

\* C1 witness: a package whose first item gave two notes and whose second
\* item, with a whitespace-only headword in mode "jp_en", gave none.
C1_Witness ==
    /\ pc = "packaged" /\ Len(results) = 2
    /\ ModelsFrom(1) = <<"jp_en", "en_jp">>
    /\ results[2].item.generation_mode = "jp_en"
    /\ Headword(results[2]) # <<>> /\ ~NonBlank(Headword(results[2]))
    /\ NotesFrom(2) = <<>>

\* C2 (as stated): an item with a blank translation in mode "both" adds
\* exactly one note, the forward note.
C2_BlankTranslationForwardOnly ==
    \A k \in Handled :
        (~NonBlank(results[k].item.translation)
         /\ results[k].item.generation_mode = "both")
            => ModelsFrom(k) = <<"jp_en">>

\* C2 (amended): the same for an item whose headword is non-blank.
C2_BlankTranslationForwardOnlyIfHeadword ==
    \A k \in Handled :
        (~NonBlank(results[k].item.translation)
         /\ results[k].item.generation_mode = "both"
         /\ NonBlank(Headword(results[k])))
            => ModelsFrom(k) = <<"jp_en">>

\* C2 witness: a handled item in mode "both" with a whitespace-only
\* translation and a kanji headword, which gave the forward note alone.
C2_Witness ==
    /\ pc = "packaged" /\ Len(results) = 1
    /\ results[1].item.generation_mode = "both"
    /\ results[1].item.translation = <<Ch.sp>>
    /\ is_kanji(Headword(results[1]))
    /\ ModelsFrom(1) = <<"jp_en">>

\* The number of notes the items of a list are due.
RECURSIVE NotesDue(_)
NotesDue(items) ==
    IF items = <<>> THEN 0
    ELSE (IF ForwardDue(Head(items)) THEN 1 ELSE 0)
         + (IF ReverseDue(Head(items)) THEN 1 ELSE 0)
         + NotesDue(Tail(items))

\* C3: when the items add no note at all (an empty list included),
\* create_anki_package ends in the error and writes no package; a package is
\* written only when at least one note was added.
C3_EmptyDeckIsError ==
    /\ (pc = "package" /\ idx > Len(results) /\ NotesDue(results) = 0)
           => (ENABLED PkgRaiseEmpty /\ ~ENABLED PkgWrite)
    /\ pc = "package_error" => (NotesDue(results) = 0 /\ ~package.written)
    /\ NotesDue(results) = 0 => ~package.written
    /\ package.written => (Len(package.notes) >= 1 /\ pc = "packaged")

\* C3 witness: two items, neither due a note, and the error raised.
C3_Witness ==
    /\ pc = "package_error"
    /\ Len(results) = 2
    /\ deck = <<>>
    /\ ~package.written

\* The decoded content of an embedded image, when the data URL decodes.
Decodes(it) == ImageOf(it.item.sentence_image).made
ContentOf(it) == ImageOf(it.item.sentence_image).data

\* C4: two words of a batch whose embedded images decode to the same bytes
\* reference the same image file name, and the package's media list holds
\* exactly one image file with that content.
C4_SameContentOneImage ==
    pc = "packaged" =>
        \A i, j \in 1..Len(results) :
            (Decodes(results[i]) /\ Decodes(results[j])
             /\ ContentOf(results[i]) = ContentOf(results[j]))
                => /\ results[i].anki_note.fields.SentenceImage
                          = results[j].anki_note.fields.SentenceImage
                   /\ Cardinality({p \in Range(package.media) :
                          \E f \in image_files :
                              f.path = p /\ f.data = ContentOf(results[i])}) = 1

\* An audio_count that is present and either no number at all or an
\* integer below 1.
MalformedCount(ac) ==
    \/ ac.kind = "badstr"
    \/ (ac.kind = "int" /\ ac.n < 1)

Malformed(batch) ==
    \E i \in 1..Len(batch) : MalformedCount(batch[i].audio_count)

\* C10: a batch holding an entry whose audio_count is present and is not an
\* integer or is below 1 is aborted by the validation on either entry path:
\* the run never gets past validation, no results directory exists, no
\* synthesis call was made and no word was processed.
C10_MalformedCountAborts ==
    Malformed(request) =>
        /\ pc \in {"cli_start", "api_start", "invalid"}
        /\ dirs = {}
        /\ synth_log = <<>>
        /\ results = <<>>

----------------------------------------------------------------------------
\* Properties of a whole run.

\* C11: when a synthesis call fails for word k of a batch, the run of
\* process_vocabulary that ends there holds a processed result for every
\* word other than k (the words after k included).
C11_FailureIsIsolated ==
    pc = "synth_error" => Len(results) = Len(vocab) - 1

\* The end-to-end scenario: one entry with a hiragana reading, no kanji, a
\* non-blank translation, audio_count 2 and mode "both".
C12_Scenario ==
    /\ Len(request) = 1
    /\ request[1].reading # <<>>
    /\ \A i \in 1..Len(request[1].reading) : IsHiragana(request[1].reading[i])
    /\ ~request[1].kanji_data.some
    /\ NonBlank(request[1].translation)
    /\ request[1].audio_count = AcInt(2)
    /\ request[1].generation_mode = "both"

\* C12: a run over the scenario entry that ends with a package gave one
\* processed word whose reading_hiragana is the reading, with exactly two
\* audio paths, and exactly two notes: the forward note, whose headword is
\* the reading and whose Vocabulary-Kana field is blank, then the reverse
\* note, whose headword is the translation.
C12_EndToEnd ==
    (C12_Scenario /\ pc = "packaged") =>
        /\ Len(results) = 1
        /\ results[1].item.reading_hiragana = request[1].reading
        /\ Len(results[1].item.audio_paths) = 2
        /\ Len(package.notes) = 2
        /\ package.notes[1].model = "jp_en"
        /\ package.notes[1].fields[1] = request[1].reading
        /\ package.notes[1].fields[3] = <<>>
        /\ package.notes[2].model = "en_jp"
        /\ package.notes[2].fields[1] = request[1].translation

\* C12 witness: the scenario run to the written package, with its synthesis
\* calls made.
C12_Witness ==
    /\ C12_Scenario /\ pc = "packaged" /\ package.written
    /\ Len(synth_log) >= 2

\* The n file names base_1.mp3 .. base_n.mp3, in order.
C13_Names(base, n) == [i \in 1..n |-> base \o <<95>> \o DecStr(i) \o S_mp3]

C13_NamesOf(paths) == [i \in 1..Len(paths) |-> paths[i].name]

\* C13: a processed word with audio_count n >= 1 had exactly n synthesis
\* calls, in the order 1..n, for the paths base_1.mp3 .. base_n.mp3, then
\* exactly n more for base_sentence_1.mp3 .. base_sentence_n.mp3 iff its
\* sentence text is non-empty; a word whose audio_count is null had no
\* synthesis call and has two empty path lists.
C13_SynthesisCalls ==
    (pc = "processed" /\ Len(vocab) = 1) =>
        LET w    == vocab[1]
            it   == results[1].item
            n    == w.audio_count.n
            base == C6_Base(w, it)
            m    == IF w.sentence_kana # <<>> THEN n ELSE 0
        IN  /\ (w.audio_count.kind = "int" /\ n >= 1) =>
                   /\ C13_NamesOf(it.audio_paths) = C13_Names(base, n)
                   /\ C13_NamesOf(it.sentence_audio_paths)
                          = C13_Names(base \o S_sentence, m)
                   /\ Len(synth_log) = n + m
                   /\ [i \in 1..Len(synth_log) |-> synth_log[i].path]
                          = it.audio_paths \o it.sentence_audio_paths
                   /\ \A i \in 1..n : synth_log[i].text = it.reading_hiragana
                   /\ \A i \in 1..m : synth_log[n + i].text = w.sentence_kana
            /\ w.audio_count.kind = "null" =>
                   /\ synth_log = <<>>
                   /\ it.audio_paths = <<>>
                   /\ it.sentence_audio_paths = <<>>

\* C13 witness: a processed word with audio_count 2 and a sentence text,
\* after four synthesis calls.
C13_Witness ==
    /\ pc = "processed" /\ Len(vocab) = 1
    /\ vocab[1].audio_count = AcInt(2)
    /\ vocab[1].sentence_kana # <<>>
    /\ Len(synth_log) = 4

----------------------------------------------------------------------------
\* Properties of the notes and the media.

\* One sound reference per path, in list order, nothing between them.
C14_Field(paths) ==
    Flatten([i \in 1..Len(paths) |-> S_sound \o paths[i].name \o <<93>>])

\* C14: in the note of every processed word, Vocabulary-Audio is the
\* concatenation in list order, with no separator, of one sound reference
\* per element of audio_paths, Sentence-Audio likewise for
\* sentence_audio_paths; the audio asset list holds one record per path, the
\* vocabulary ones first and then the sentence ones, each in list order; a
\* field is empty when its list is empty.
C14_AudioFields ==
    \A k \in 1..Len(results) :
        LET it   == results[k].item
            note == results[k].anki_note
        IN  /\ note.fields.VocabularyAudio = C14_Field(it.audio_paths)
            /\ note.fields.SentenceAudio = C14_Field(it.sentence_audio_paths)
            /\ [i \in 1..Len(note.audio) |-> note.audio[i].path]
                   = it.audio_paths \o it.sentence_audio_paths
            /\ \A i \in 1..Len(note.audio) :
                   note.audio[i].filename = note.audio[i].path.name
            /\ it.audio_paths = <<>> => note.fields.VocabularyAudio = <<>>
            /\ it.sentence_audio_paths = <<>> => note.fields.SentenceAudio = <<>>

\* C14 witness: a processed word with two vocabulary and two sentence audio
\* paths, and four audio records.
C14_Witness ==
    /\ pc = "processed" /\ Len(results) = 1
    /\ Len(results[1].item.audio_paths) = 2
    /\ Len(results[1].item.sentence_audio_paths) = 2
    /\ Len(results[1].anki_note.audio) = 4
    /\ results[1].anki_note.fields.VocabularyAudio # <<>>

\* Well-formed base64 text: alphabet characters, then at most two padding
\* characters, a multiple of four characters in all.
C15_WellFormedB64(p) ==
    /\ Len(p) % 4 = 0
    /\ \A i \in 1..Len(p) : B64Val(p[i]) >= 0 \/ p[i] = 61
    /\ \A i \in 1..Len(p) : p[i] = 61 => (i > Len(p) - 2 /\ i > 1)
    /\ \A i \in 1..(Len(p) - 1) : p[i] = 61 => p[i + 1] = 61

\* An embedded image that cannot be decoded: given, and not a data URL
\* "data:image/...,payload" with a well-formed base64 payload.
C15_Undecodable(si) ==
    /\ si # <<>>
    /\ ~(/\ StartsWith(si, S_data_image)
         /\ IndexOf(si, 44) # 0
         /\ C15_WellFormedB64(After(si, 44)))

\* C15: a word whose sentence_image cannot be decoded still has its note,
\* with an empty Sentence-Image field, no image asset and Sentence-English
\* equal to the plain sentence translation, and every word of the batch has
\* its result.
C15_UndecodableImageSkipped ==
    /\ Len(results) = Len(vocab)
    /\ \A k \in Handled :
           C15_Undecodable(vocab[k].sentence_image) =>
               /\ results[k].anki_note.fields.SentenceImage = <<>>
               /\ results[k].anki_note.images = <<>>
               /\ results[k].anki_note.fields.SentenceEnglish
                      = vocab[k].sentence_english
               /\ \A i \in 1..Len(NotesFrom(k)) :
                      NotesFrom(k)[i].fields[14] = <<>>

\* The paths on disk.
C16_OnDisk == {f.path : f \in disk}

\* The audio paths the notes of the items carry.
C16_AudioPaths ==
    UNION {{results[k].anki_note.audio[i].path :
                i \in 1..Len(results[k].anki_note.audio)} :
           k \in 1..Len(results)}

\* The paths of the image files written for the items.
C16_ImagePaths == {f.path : f \in image_files}

\* C16: the media list handed to the package holds no path twice; its
\* paths are exactly the audio paths of the items that exist on disk
\* together with the paths of the image files written, however often a
\* path was collected; an audio path that does not exist is not in it.
C16_MediaListDistinct ==
    pc = "packaged" =>
        /\ \A i, j \in 1..Len(package.media) :
               package.media[i] = package.media[j] => i = j
        /\ Range(package.media)
               = (C16_AudioPaths \cap C16_OnDisk) \cup C16_ImagePaths
        /\ Range(package.media) = Range(media_files)
        /\ \A p \in C16_AudioPaths \ C16_OnDisk : p \notin Range(package.media)

\* C16 witness: a package where one path was collected twice and is listed
\* once.
C16_Witness ==
    /\ pc = "packaged"
    /\ Len(media_files) = 4
    /\ Len(package.media) = 2

\* A package built although an audio path of an item does not exist.
C16_WitnessMissing ==
    /\ pc = "packaged"
    /\ C16_AudioPaths \ C16_OnDisk # {}
    /\ package.media # <<>>

\* C17: in one run of create_anki_package, an image file is written at most
\* once per distinct image file name, however many items carry an image
\* asset of that name (and once when any item carries one).
C17_ImageWrittenOnce ==
    /\ \A i, j \in 1..Len(image_log) :
           image_log[i].path = image_log[j].path => i = j
    /\ \A f \in image_files : \E i \in 1..Len(image_log) : image_log[i] = f

\* The media paths of item k: the paths of its audio records and of the
\* image files written for it.
C18_MediaOfItem(k) ==
    {results[k].anki_note.audio[i].path :
        i \in 1..Len(results[k].anki_note.audio)}
    \cup Range(PathsOf(ImageWritesOfItem(results[k], results_dir)))

\* C18: every media file of the package belongs to an item that has a note
\* in the package; an item that added no note contributes no media file.
C18_MediaOfAddedNotes ==
    pc = "packaged" =>
        \A p \in Range(package.media) :
            \E i \in 1..Len(package.notes) :
                p \in C18_MediaOfItem(package.notes[i].src)

\* C19: processing is one pass in input order.  The results so far are the
\* results of the first words, result i derived from word i, and there is
\* one result per word once process_vocabulary has returned; the notes of
\* the deck are in the order of their items, an item's forward note before
\* its reverse note.
C19_InputOrderKept ==
    /\ Len(results) <= Len(vocab)
    /\ pc \in {"word", "audio", "synth_error", "crashed"}
           => Len(results) = idx - 1
    /\ pc \in {"processed", "package", "packaged", "package_error"}
           => Len(results) = Len(vocab)
    /\ \A i \in 1..Len(results) :
           \E cs \in SUBSET (2..MaxWordLen) :
               results[i] = ProcessedWord(vocab[i], cs, audio_dir)
    /\ \A i, j \in 1..Len(deck) :
           i < j => /\ deck[i].src <= deck[j].src
                    /\ deck[i].src = deck[j].src
                           => (deck[i].model = "jp_en" /\ deck[j].model = "en_jp")
    /\ package.written => package.notes = deck

\* C19 witness: a package from two words that differ, each with its two
\* notes.
C19_Witness ==
    /\ pc = "packaged"
    /\ Len(vocab) = 2 /\ vocab[1] # vocab[2]
    /\ Len(results) = 2
    /\ Len(package.notes) = 4

\* C20: in every forward note, the Vocabulary-Kana field is empty when the
\* word has no kanji and is the hiragana reading when the word has a kanji
\* surface.
C20_ForwardReadingField ==
    \A i \in 1..Len(deck) :
        deck[i].model = "jp_en" =>
            LET it == results[deck[i].src].item
            IN  /\ it.kanji = <<>> => deck[i].fields[3] = <<>>
                /\ it.kanji # <<>> => deck[i].fields[3] = it.reading_hiragana

\* C20 witness: a package with the forward note of a word without kanji and
\* the forward note of a word with a kanji surface, each reading non-empty.
C20_Witness ==
    /\ pc = "packaged" /\ Len(results) = 2
    /\ results[1].item.kanji = <<>> /\ results[1].item.reading_hiragana # <<>>
    /\ results[2].item.kanji # <<>> /\ results[2].item.reading_hiragana # <<>>
    /\ \E i, j \in 1..Len(deck) :
           /\ deck[i].model = "jp_en" /\ deck[i].src = 1
           /\ deck[i].fields[3] = <<>>
           /\ deck[j].model = "jp_en" /\ deck[j].src = 2
           /\ deck[j].fields[3] # <<>>

\* C21: in every reverse note, the first field is the word's translation,
\* the translation field (the fourth) holds a placeholder that is non-empty
\* and made of whitespace only, and every other field is the field of the
\* same name in the item's compiled field set.
C21_ReverseNoteFields ==
    \A i \in 1..Len(deck) :
        deck[i].model = "en_jp" =>
            LET it == results[deck[i].src]
                f  == it.anki_note.fields
                n  == deck[i].fields
            IN  /\ Len(n) = 18
                /\ n[1] = it.item.translation
                /\ n[4] # <<>> /\ ~NonBlank(n[4])
                /\ n[2] = f.VocabularyFurigana /\ n[3] = f.VocabularyKana
                /\ n[5] = f.VocabularyAudio /\ n[6] = f.VocabularyPos
                /\ n[7] = f.Caution /\ n[8] = f.Expression
                /\ n[9] = f.Reading /\ n[10] = f.SentenceKana
                /\ n[11] = f.SentenceEnglish /\ n[12] = f.SentenceClozed
                /\ n[13] = f.SentenceAudio /\ n[14] = f.SentenceImage
                /\ n[15] = f.Notes /\ n[16] = f.CoreIndex
                /\ n[17] = f.OptimizedVocIndex /\ n[18] = f.OptimizedSentIndex

\* C21 witness: a package holding the reverse note of a word with a kanji
\* surface, its Vocabulary-Kana and Reading fields filled.
C21_Witness ==
    /\ pc = "packaged"
    /\ \E i \in 1..Len(deck) :
           /\ deck[i].model = "en_jp"
           /\ results[deck[i].src].item.kanji # <<>>
           /\ deck[i].fields[1] = <<Ch.lat>>
           /\ deck[i].fields[3] # <<>> /\ deck[i].fields[9] # <<>>

\* C22: no two distinct decoded image contents of a run get the same image
\* file name: the items handled so far that carry different contents carry
\* different file names, and no image file was written twice with different
\* contents.
C22_DistinctContentDistinctName ==
    /\ \A k, l \in Handled :
           (Decodes(results[k]) /\ Decodes(results[l])
            /\ ContentOf(results[k]) # ContentOf(results[l]))
               => ImageOf(results[k].item.sentence_image).filename
                      # ImageOf(results[l].item.sentence_image).filename
    /\ \A i, j \in 1..Len(image_log) :
           image_log[i].path = image_log[j].path
               => image_log[i].data = image_log[j].data

----------------------------------------------------------------------------
\* build_furigana on readings of any length.

\* The cursor before token k: the hiragana lengths of the tokens before it.
RECURSIVE C23_Cursor(_, _)
C23_Cursor(tokens, k) ==
    IF k = 1 THEN 0
    ELSE C23_Cursor(tokens, k - 1) + Len(convert_to_hiragana(tokens[k - 1]))

\* The n characters of r after the first c, as many of them as r has.
C23_Segment(r, c, n) ==
    LET last == IF c + n < Len(r) THEN c + n ELSE Len(r)
    IN  IF c >= Len(r) THEN <<>> ELSE [i \in 1..(last - c) |-> r[c + i]]

\* What token k contributes to the output.
C23_Emitted(tokens, r, k) ==
    IF tokens[k] = convert_to_hiragana(tokens[k]) THEN tokens[k]
    ELSE tokens[k] \o <<Ch.lb>>
         \o C23_Segment(r, C23_Cursor(tokens, k),
                        Len(convert_to_hiragana(tokens[k])))
         \o <<Ch.rb>>

\* C23: build_furigana returns a text, no shorter than the surfaces, for
\* every token sequence and every reading, whatever the tokens' hiragana
\* lengths sum to; its output is, token by
\* token in order, the surface alone for a token equal to its own
\* transliteration and surface[segment] for any other, the segment being
\* the slice of the reading at a cursor that advances by each token's
\* hiragana length (shorter or empty where the reading runs out); nothing
\* else is returned or signalled.
C23_BestEffortFurigana ==
    /\ pc = "furigana" =>
           Len(build_furigana(kanji_word, cuts, reading_arg))
               >= Len(Flatten(tagger(kanji_word, cuts)))
    /\ pc = "furigana_done" =>
           LET tokens == tagger(kanji_word, cuts)
           IN  furigana = Flatten([k \in 1..Len(tokens) |->
                                      C23_Emitted(tokens, reading_arg, k)])

\* C23 witness: two tokens whose hiragana lengths sum to more than the
\* reading has, the second one annotated with an empty segment.
C23_Witness ==
    /\ pc = "furigana_done"
    /\ Len(tagger(kanji_word, cuts)) = 2
    /\ KanaSum(tagger(kanji_word, cuts)) > Len(reading_arg)
    /\ reading_arg # <<>>
    /\ Len(furigana) >= 2
    /\ furigana[Len(furigana) - 1] = Ch.lb /\ furigana[Len(furigana)] = Ch.rb

----------------------------------------------------------------------------
\* Properties of the audio files of a batch.

\* The text held by the audio file at path p.
C24_TextAt(p) == (CHOOSE f \in disk : f.path = p).text

\* C24: once the batch is processed, every audio file a word's note refers
\* to holds the audio synthesized from that word's own text: the reading
\* for a vocabulary audio path, the sentence text for a sentence audio
\* path; no other entry of the batch wrote a different text to that path.
C24_AudioOfOwnText ==
    pc = "processed" =>
        \A k \in 1..Len(results) :
            LET it == results[k].item
            IN  /\ \A i \in 1..Len(it.audio_paths) :
                       /\ \E f \in disk : f.path = it.audio_paths[i]
                       /\ C24_TextAt(it.audio_paths[i]) = it.reading_hiragana
                /\ \A i \in 1..Len(it.sentence_audio_paths) :
                       /\ \E f \in disk : f.path = it.sentence_audio_paths[i]
                       /\ C24_TextAt(it.sentence_audio_paths[i])
                              = it.sentence_kana

----------------------------------------------------------------------------
\* C25: after any sequence of successful generate requests, a download
\* request for the package file name the latest generate returned yields the
\* package that latest request wrote, never the package of an earlier request.
C25_LatestFile == CHOOSE f \in apkg_files : f.dir = apkg_path.dir

C25_DownloadYieldsLatest ==
    (ServerIdle /\ apkg_path # NoPath
        /\ served.found /\ served.name = apkg_path.name)
    => served.file = C25_LatestFile
====
